---- MODULE Spec2Model ----
(***************************************************************************)
(* asyncgist: a thin asynchronous client over the GitHub Gists REST API.   *)
(*                                                                         *)
(* The model covers the identifier normalizer (convert), Request, the      *)
(* dispatcher Client.request with its error taxonomy, the Client facade    *)
(* operations and the Gist/File/User decoders.                             *)
(*                                                                         *)
(* Representation of Python values:                                        *)
(*   - a str that reaches convert or a path is a sequence of one-character *)
(*     strings; other strs (descriptions, contents, reasons) are strings;  *)
(*   - Optional[T] is a sequence of length <= 1: None is << >>, a value v  *)
(*     is <<v>>;                                                           *)
(*   - a dict with fixed keys is a record; a dict whose keys are data      *)
(*     (files keyed by filename, **kwargs) is an insertion-ordered         *)
(*     sequence of [k, v] entries;                                         *)
(*   - a JSON object is a function from the keys it contains.              *)
(***************************************************************************)
EXTENDS Integers, Sequences, FiniteSets, TLC

VARIABLES
    client,     \* the Client object: its token
    session,    \* the aiohttp session the client was given: headers, closed
    task,       \* per caller task: the invocation it is running, if any
    cv,         \* a standalone application of convert: input and result
    closes      \* per caller of Client.close: where its close stands; the calls of session.close()

vars == <<client, session, task, cv, closes>>

-----------------------------------------------------------------------------
(* Bounds of the model *)

\* longest tail appended to a scheme prefix in the inputs of convert
MaxTail == 3
\* longest list of File passed to post_gist / update_gist
MaxFiles == 2

-----------------------------------------------------------------------------
(* Python values *)

None == << >>
Some(v) == <<v>>

\* bool(x) for an Optional[str] held as a character sequence, or Optional[int]
TruthyStr(o) == o # None /\ o[1] # << >>

\* dict.get(key) on a JSON object: None when the key is missing
Get(d, k) == IF k \in DOMAIN d THEN Some(d[k]) ELSE None

\* d[k] = v on an insertion-ordered dict
DictSet(d, k, v) ==
    IF \E i \in 1..Len(d) : d[i].k = k
    THEN [i \in 1..Len(d) |-> IF d[i].k = k THEN [k |-> k, v |-> v] ELSE d[i]]
    ELSE Append(d, [k |-> k, v |-> v])

DictKeys(d) == [i \in 1..Len(d) |-> d[i].k]

\* outcomes of a call: a returned value or a raised exception
Return(v) == [kind |-> "return", value |-> v]
RaiseHTTP(exc, status, reason, text) ==
    [kind |-> "raise", exc |-> exc, status |-> status, reason |-> reason, text |-> text]
RaiseLocal(exc, msg) == [kind |-> "raise", exc |-> exc, msg |-> msg]

-----------------------------------------------------------------------------
(* client.py: GIST_URL, URL_REGEX, convert, Request *)

S_http == <<"h", "t", "t", "p">>
S_colon_slashes == <<":", "/", "/">>
S_www == <<"w", "w", "w", ".">>
S_star == <<"/", "s", "t", "a", "r">>
S_forks == <<"/", "f", "o", "r", "k", "s">>
S_comments == <<"/", "c", "o", "m", "m", "e", "n", "t", "s">>

GIST_URL ==
    <<"h", "t", "t", "p", "s", ":", "/", "/", "a", "p", "i", ".", "g", "i", "t",
      "h", "u", "b", ".", "c", "o", "m", "/", "g", "i", "s", "t", "s">>

StartsWith(s, p) == Len(s) >= Len(p) /\ SubSeq(s, 1, Len(p)) = p
Drop(s, n) == SubSeq(s, n + 1, Len(s))

\* the regex tail `.+` : at least one character, none of which the match needs
\* beyond the first, and `.` does not match a newline
DotPlus(s) == Len(s) >= 1 /\ s[1] # "\n"

\* `(?:www\.)?.+` : the optional group taken, or skipped on backtracking
OptWwwThenDotPlus(s) ==
    \/ StartsWith(s, S_www) /\ DotPlus(Drop(s, Len(S_www)))
    \/ DotPlus(s)

\* URL_REGEX.match(s): `https?://(?:www\.)?.+` anchored at the start of s
URL_REGEX_match(s) ==
    \E scheme \in {S_http \o S_colon_slashes, S_http \o <<"s">> \o S_colon_slashes} :
        /\ StartsWith(s, scheme)
        /\ OptWwwThenDotPlus(Drop(s, Len(scheme)))

\* str.split(sep): the list of the segments between the separators
RECURSIVE Split(_, _)
Split(s, sep) ==
    IF \A i \in 1..Len(s) : s[i] # sep
    THEN <<s>>
    ELSE LET i == CHOOSE j \in 1..Len(s) :
                      s[j] = sep /\ \A l \in 1..(j - 1) : s[l] # sep
         IN  <<SubSeq(s, 1, i - 1)>> \o Split(Drop(s, i), sep)

\* q[-1]
LastOf(q) == q[Len(q)]

convert(id_or_url) ==
    IF URL_REGEX_match(id_or_url) THEN LastOf(Split(id_or_url, "/")) ELSE id_or_url

Request(method, path) ==
    [method |-> method, path |-> path, url |-> GIST_URL \o path]

-----------------------------------------------------------------------------
(* models.py: File, User, Gist *)

\* File(filename=..., content=...) with the other parameters at their defaults
File(filename, content) ==
    [filename |-> filename, type |-> None, content |-> content,
     language |-> None, raw_url |-> None, size |-> None]

FileFromDict(data) ==
    [filename |-> Get(data, "filename"), type |-> Get(data, "type"),
     content |-> Get(data, "content"), language |-> Get(data, "language"),
     raw_url |-> Get(data, "raw_url"), size |-> Get(data, "size")]

User(data) ==
    [login |-> Get(data, "login"), id |-> Get(data, "id"),
     type |-> Get(data, "type"), site_admin |-> Get(data, "site_admin")]

\* the timestamps a response may carry
TS_VALID == "2020-01-02T03:04:05Z"
TS_MALFORMED == "2020-01-02"

\* datetime.strptime(s, "%Y-%m-%dT%H:%M:%S%z") on an Optional[str]
Strptime(o) ==
    IF o = None
    THEN RaiseLocal("TypeError", "strptime() argument 1 must be str, not None")
    ELSE IF o[1] = TS_VALID
    THEN Return([year |-> 2020, month |-> 1, day |-> 2, hour |-> 3, minute |-> 4,
                 second |-> 5, utcoffset |-> 0])
    ELSE RaiseLocal("ValueError", "time data does not match format")

\* [File.from_dict(val) for _, val in files.items()]
FilesFromItems(files) == [i \in 1..Len(files) |-> FileFromDict(files[i].v)]

\* Gist._set(data): the Gist's attributes, or the exception a step raises
GistSet(cl, data) ==
    LET created == Strptime(Get(data, "created_at"))
        updated == Strptime(Get(data, "updated_at"))
        owner   == Get(data, "owner")
        user    == Get(data, "user")
        files   == Get(data, "files")
    IN  IF created.kind = "raise" THEN created
        ELSE IF updated.kind = "raise" THEN updated
        ELSE IF files = None
        THEN RaiseLocal("AttributeError", "'NoneType' object has no attribute 'items'")
        ELSE Return(
            [client |-> cl,
             url |-> Get(data, "url"),
             id |-> Get(data, "id"),
             html_url |-> Get(data, "html_url"),
             public |-> Get(data, "public"),
             description |-> Get(data, "description"),
             created_at |-> Some(created.value),
             updated_at |-> Some(updated.value),
             owner |-> IF owner = None THEN None ELSE Some(User(owner[1])),
             user |-> IF user = None THEN None ELSE Some(User(user[1])),
             files |-> FilesFromItems(files[1])])

\* GistInit without the check of the id
GistInit_NoIdCheck(cl, data) ==
    IF data = None
    THEN RaiseLocal("AttributeError", "'NoneType' object has no attribute 'get'")
    ELSE GistSet(cl, data[1])

\* Gist(client, data), data being what Client.request returned (None or a JSON object)
GistInit(cl, data) ==
    IF data = None
    THEN RaiseLocal("AttributeError", "'NoneType' object has no attribute 'get'")
    ELSE IF ~TruthyStr(Get(data[1], "id"))
    THEN RaiseLocal("TypeError", "Gist data must have an id.")
    ELSE GistSet(cl, data[1])

-----------------------------------------------------------------------------
(* client.py: Client.__init__ *)

TOKEN == "TOKEN"

ClientInit(token) == [token |-> token]

SessionAfterInit(token) ==
    [closed |-> FALSE,
     headers |-> [Accept |-> "application/vnd.github.v3+json",
                  UserAgent |-> "Avimetry-Gist-Cog",
                  Authorization |-> <<"token ", token>>]]

-----------------------------------------------------------------------------
(* client.py: Client.request *)

\* Binding a call self.request(request, *posargs, **kwargs) to
\* `async def request(self, request, **kwargs)`: the signature has no room for a
\* second positional argument.
BindRequest(req, posargs, kwargs) ==
    IF Len(posargs) > 0
    THEN RaiseLocal("TypeError",
                    "Client.request() takes 2 positional arguments but 3 were given")
    ELSE [kind |-> "await", req |-> req, kwargs |-> kwargs]

\* ClientRequest without the 403 branch
ClientRequest_No403(resp) ==
    IF 300 > resp.status /\ resp.status >= 200
    THEN Return(IF resp.json.decodes THEN resp.json.value ELSE None)
    ELSE IF resp.status = 404
    THEN RaiseHTTP("NotFound", resp.status, resp.reason, resp.text)
    ELSE RaiseHTTP("HTTPExeption", resp.status, resp.reason, resp.text)

\* ClientRequest without the try/except around resp.json()
ClientRequest_DecodeRaises(resp) ==
    IF 300 > resp.status /\ resp.status >= 200
    THEN IF resp.json.decodes THEN Return(resp.json.value)
         ELSE RaiseLocal("ContentTypeError", "Attempt to decode JSON with unexpected mimetype")
    ELSE IF resp.status = 404
    THEN RaiseHTTP("NotFound", resp.status, resp.reason, resp.text)
    ELSE IF resp.status = 403
    THEN RaiseHTTP("Forbidden", resp.status, resp.reason, resp.text)
    ELSE RaiseHTTP("HTTPExeption", resp.status, resp.reason, resp.text)

\* Client.request from the response on: the value returned or failure raised
ClientRequest(resp) ==
    IF 300 > resp.status /\ resp.status >= 200
    THEN Return(IF resp.json.decodes THEN resp.json.value ELSE None)
    ELSE IF resp.status = 404
    THEN RaiseHTTP("NotFound", resp.status, resp.reason, resp.text)
    ELSE IF resp.status = 403
    THEN RaiseHTTP("Forbidden", resp.status, resp.reason, resp.text)
    ELSE RaiseHTTP("HTTPExeption", resp.status, resp.reason, resp.text)

-----------------------------------------------------------------------------
(* models.py: Comment *)

\* bool(x) for an Optional[int]
TruthyInt(o) == o # None /\ o[1] # 0

\* Comment._set(data): the Comment's attributes, or the exception a step raises
\* (`self.user: User(user)` is an annotation and assigns nothing)
CommentSet(cl, data) ==
    LET created == Strptime(Get(data, "created_at"))
        updated == Strptime(Get(data, "updated_at"))
    IN  IF created.kind = "raise" THEN created
        ELSE IF updated.kind = "raise" THEN updated
        ELSE Return([client |-> cl,
                     id |-> Get(data, "id"),
                     node_id |-> Get(data, "node_id"),
                     gist_id |-> Get(data, "gist_id"),
                     url |-> Get(data, "url"),
                     body |-> Get(data, "body"),
                     created_at |-> Some(created.value),
                     updated_at |-> Some(updated.value)])

\* Binding a call Comment(*posargs) to `def __init__(self, client, data)`
\* (the TypeError message is abbreviated)
CommentNew(posargs) ==
    IF Len(posargs) < 2
    THEN RaiseLocal("TypeError", "__init__() missing 1 required positional argument: 'data'")
    ELSE IF posargs[2] = None
    THEN RaiseLocal("AttributeError", "'NoneType' object has no attribute 'get'")
    ELSE IF ~TruthyInt(Get(posargs[2][1], "id"))
    THEN RaiseLocal("TypeError", "Comment data must have an id.")
    ELSE CommentSet(posargs[1], posargs[2][1])

-----------------------------------------------------------------------------
(* client.py: the facade operations, each up to its await of Client.request *)

\* `if not isinstance(files, list): files = [files]`
AsList(files) == IF files.kind = "list" THEN files.items ELSE <<files.file>>

\* {f.filename: {"content": f.content} for f in files}
RECURSIVE FilesPayload(_)
FilesPayload(files) ==
    IF files = << >> THEN << >>
    ELSE LET n == Len(files)
             f == files[n]
         IN  DictSet(FilesPayload(SubSeq(files, 1, n - 1)),
                     f.filename, [content |-> f.content])

\* str(n) for n >= 0, as in an f-string
DigitChar(d) ==
    CASE d = 0 -> "0" [] d = 1 -> "1" [] d = 2 -> "2" [] d = 3 -> "3" [] d = 4 -> "4"
      [] d = 5 -> "5" [] d = 6 -> "6" [] d = 7 -> "7" [] d = 8 -> "8" [] d = 9 -> "9"
RECURSIVE IntStr(_)
IntStr(n) == IF n < 10 THEN <<DigitChar(n)>> ELSE IntStr(n \div 10) \o <<DigitChar(n % 10)>>

\* the types a dict cannot use as a key
UnhashableTypes == {"dict", "list", "set"}

\* post_gist sending the File objects' attributes as they are
post_gist_RawFiles(args) ==
    LET files == [i \in 1..Len(AsList(args.files)) |->
                     [k |-> AsList(args.files)[i].filename, v |-> AsList(args.files)[i]]]
        data  == [public |-> args.public, files |-> files,
                  description |-> args.description]
    IN  BindRequest(Request("POST", << >>), << >>, <<[k |-> "json", v |-> data]>>)

post_gist(args) ==
    LET files == FilesPayload(AsList(args.files))
        data  == [public |-> args.public, files |-> files,
                  description |-> args.description]
    IN  BindRequest(Request("POST", << >>), << >>, <<[k |-> "json", v |-> data]>>)

\* `data = {"description": description, files: files}`: the second key is the
\* mapping `files` itself, and a dict is not hashable
update_gist(args) ==
    LET gist_id == convert(args.id_or_url)
        files   == FilesPayload(AsList(args.files))
        keyType == "dict"
    IN  IF keyType \in UnhashableTypes
        THEN RaiseLocal("TypeError", "unhashable type: 'dict'")
        ELSE BindRequest(Request("PATCH", <<"/">> \o gist_id), << >>,
                         <<[k |-> "json",
                            v |-> [description |-> args.description, files |-> files]]>>)

fetch_gist(args) ==
    BindRequest(Request("GET", <<"/">> \o convert(args.id_or_url)), << >>, << >>)

delete_gist(args) ==
    BindRequest(Request("DELETE", <<"/">> \o convert(args.id_or_url)), << >>, << >>)

star_gist(args) ==
    BindRequest(Request("PUT", <<"/">> \o convert(args.id_or_url) \o S_star), << >>, << >>)

unstar_gist(args) ==
    BindRequest(Request("DELETE", <<"/">> \o convert(args.id_or_url) \o S_star), << >>, << >>)

fork_gist(args) ==
    BindRequest(Request("POST", <<"/">> \o convert(args.id_or_url) \o S_forks), << >>, << >>)

\* `self.request(Request(...), data)`: data is passed positionally
fetch_comments(args) ==
    LET gist_id == convert(args.id_or_url)
        data    == [per_page |-> args.per_page, page |-> args.page]
    IN  BindRequest(Request("GET", <<"/">> \o gist_id \o S_comments), <<data>>, << >>)

post_comment(args) ==
    LET gist_id == convert(args.id_or_url)
        data    == [content |-> args.content]
    IN  BindRequest(Request("GET", <<"/">> \o gist_id \o S_comments), <<data>>, << >>)

update_comment(args) ==
    LET gist_id == convert(args.id_or_url)
        data    == [body |-> args.content]
    IN  BindRequest(Request("PATCH", <<"/">> \o gist_id \o S_comments \o <<"/">>
                                        \o IntStr(args.comment_id)),
                    <<data>>, << >>)

\* `convert(id-id_or_url)`: the builtin function id minus a str
delete_comment(args) ==
    RaiseLocal("TypeError",
               "unsupported operand type(s) for -: 'builtin_function_or_method' and 'str'")

Ops == {"post_gist", "update_gist", "fetch_gist", "delete_gist", "star_gist",
        "unstar_gist", "fork_gist", "fetch_comments", "post_comment",
        "update_comment", "delete_comment"}

\* an operation from its call to its first await, or to the exception it raises
\* before awaiting anything
Start(op, args) ==
    CASE op = "post_gist" -> post_gist(args)
      [] op = "update_gist" -> update_gist(args)
      [] op = "fetch_gist" -> fetch_gist(args)
      [] op = "delete_gist" -> delete_gist(args)
      [] op = "star_gist" -> star_gist(args)
      [] op = "unstar_gist" -> unstar_gist(args)
      [] op = "fork_gist" -> fork_gist(args)
      [] op = "fetch_comments" -> fetch_comments(args)
      [] op = "post_comment" -> post_comment(args)
      [] op = "update_comment" -> update_comment(args)
      [] op = "delete_comment" -> delete_comment(args)

\* an operation from the return of Client.request to its own return
Complete(cl, op, output) ==
    CASE op \in {"post_gist", "update_gist", "fetch_gist", "fork_gist"} ->
            GistInit(cl, output)
      [] op \in {"delete_gist", "star_gist", "unstar_gist", "delete_comment"} ->
            Return(output)
      [] op \in {"post_comment", "update_comment"} ->
            CommentNew(<<output>>)
      [] op = "fetch_comments" ->
            IF output = None
            THEN RaiseLocal("TypeError", "'NoneType' object is not iterable")
            ELSE IF DOMAIN output[1] = {} THEN Return(Some(<< >>))
            ELSE CommentNew(<<"key">>)

-----------------------------------------------------------------------------
(* The callers' inputs and the server's responses *)

GistId == <<"a", "1">>
UrlHost == S_http \o <<"s">> \o S_colon_slashes \o <<"g", ".", "c", "o", "/", "u", "/">>

\* a bare id, a URL ending in the id, the same URL with a trailing slash
IdInputs == {GistId, UrlHost \o GistId, UrlHost \o GistId \o <<"/">>}

InputFiles == {File("file.txt", "c1"), File("file.txt", "c2"), File("file.py", "c1")}

RECURSIVE SeqsUpTo(_, _)
SeqsUpTo(S, n) ==
    IF n = 0 THEN {<< >>}
    ELSE LET shorter == SeqsUpTo(S, n - 1)
         IN  shorter \cup {Append(q, x) : q \in {r \in shorter : Len(r) = n - 1}, x \in S}

FileArgs ==
    {[kind |-> "File", file |-> f] : f \in InputFiles}
        \cup {[kind |-> "list", items |-> q] : q \in SeqsUpTo(InputFiles, MaxFiles)}

ArgsOf(op) ==
    CASE op = "post_gist" ->
            [description : {"desc"}, files : FileArgs, public : BOOLEAN]
      [] op = "update_gist" ->
            [id_or_url : IdInputs, description : {"desc"}, files : FileArgs]
      [] op \in {"fetch_gist", "delete_gist", "star_gist", "unstar_gist", "fork_gist"} ->
            [id_or_url : IdInputs]
      [] op = "fetch_comments" ->
            [id_or_url : IdInputs, per_page : {30, 100}, page : {1, 2}]
      [] op = "post_comment" ->
            [id_or_url : IdInputs, content : {"hello"}]
      [] op = "update_comment" ->
            [id_or_url : IdInputs, comment_id : {7, 42}, content : {"hello"}]
      [] op = "delete_comment" ->
            [id_or_url : IdInputs, comment_id : {7, 42}]

\* JSON file objects of a response
RespFile(name) == [filename |-> name, type |-> "text/plain", content |-> "c", size |-> 1]

RespFilesValues ==
    {<< >>,
     <<[k |-> "file.txt", v |-> RespFile("file.txt")]>>,
     <<[k |-> "file.py", v |-> RespFile("file.py")],
       [k |-> "file.txt", v |-> [content |-> "c"]]>>}

\* a gist JSON object with every key the model reads
FullGists ==
    [id : {<< >>, <<"a", "b", "c", "1", "2", "3">>},
     description : {"desc"},
     public : {TRUE},
     html_url : {"html"},
     created_at : {TS_VALID, TS_MALFORMED},
     updated_at : {TS_VALID},
     owner : {[login |-> "octocat", id |-> 1]},
     files : RespFilesValues]

OptionalKeys == {"id", "created_at", "updated_at", "owner", "files"}

Restrict(f, keys) == [k \in keys |-> f[k]]

GistObjects ==
    {Restrict(g, DOMAIN g \ dropped) : g \in FullGists, dropped \in SUBSET OptionalKeys}

\* what resp.json() does: decode to a value (an object, or null), or fail
JsonViews ==
    {[decodes |-> FALSE, value |-> None], [decodes |-> TRUE, value |-> None]}
        \cup {[decodes |-> TRUE, value |-> Some(g)] : g \in GistObjects}

SuccessStatuses == {200, 201, 299}
FailureStatuses == {199, 300, 403, 404, 500}

Responses ==
    [status : SuccessStatuses, reason : {"OK"}, text : {"body"}, json : JsonViews]
        \cup [status : FailureStatuses, reason : {"Not Found", "Forbidden"},
              text : {"", "{\"message\": \"Not Found\"}"},
              json : {j \in JsonViews : j.value = None}]

-----------------------------------------------------------------------------
(* The state machine *)

\* The caller tasks of Spec. An invocation reads the client and the session and
\* writes only its own task's locals, so what holds of one task's invocation
\* does not depend on how many tasks there are.
Tasks == {"caller"}

IdleTask ==
    [pc |-> "idle", op |-> "", args |-> None, req |-> None, kwargs |-> None,
     ncalls |-> 0, resp |-> None, rr |-> None, outcome |-> None]

\* the task after the operation ran to its first await (session.request is
\* called there) or raised
AfterStart(tk, op, args) ==
    LET st == Start(op, args)
    IN  IF st.kind = "raise"
        THEN [tk EXCEPT !.pc = "done", !.op = op, !.args = Some(args),
                        !.outcome = Some(st)]
        ELSE [tk EXCEPT !.pc = "awaiting", !.op = op, !.args = Some(args),
                        !.req = Some(st.req), !.kwargs = Some(st.kwargs),
                        !.ncalls = tk.ncalls + 1]

\* AfterResponse with one retry of a 5xx response: session.request is called again
AfterResponse_Retry(tk, resp) ==
    IF resp.status >= 500 /\ tk.ncalls < 2
    THEN [tk EXCEPT !.ncalls = tk.ncalls + 1]
    ELSE [tk EXCEPT !.pc = "reading", !.resp = Some(resp)]

\* the task after session.request delivered resp (client.py 63): Client.request
\* tests resp.status and awaits the body, resp.json() for a 2xx status and
\* resp.text() for any other; the body is not read yet
AfterResponse(tk, resp) == [tk EXCEPT !.pc = "reading", !.resp = Some(resp)]

\* the task after the body was read: Client.request returns or raises and the
\* operation runs to its end
AfterBody(cl, tk) ==
    LET rr == ClientRequest(tk.resp[1])
    IN  [tk EXCEPT !.pc = "done", !.rr = Some(rr),
                   !.outcome = Some(IF rr.kind = "raise" THEN rr
                                    ELSE Complete(cl, tk.op, rr.value))]

\* asyncio raises CancelledError into a cancelled task at the await it is
\* suspended in; `except Exception` (client.py 67) does not catch it
CancelledError == RaiseLocal("CancelledError", "")

\* the task after it was cancelled while suspended in session.request or in
\* the read of the body
AfterCancel(tk) == [tk EXCEPT !.pc = "done", !.outcome = Some(CancelledError)]

CvOff == [pc |-> "off", input |-> << >>, output |-> << >>]

\* the callers of Client.close
Closers == {"c1", "c2"}

\* a caller not in Client.close. called: this close called session.close();
\* later: this close began after a close had returned.
IdleCloser == [pc |-> "idle", called |-> FALSE, later |-> FALSE, outcome |-> None]

\* no call of Client.close yet. session_close: session.close() was called;
\* first keeps the session as the first close to return left it.
NoCloses ==
    [closer |-> [c \in Closers |-> IdleCloser], session_close |-> FALSE, first |-> None]

Init ==
    /\ client = ClientInit(TOKEN)
    /\ session = SessionAfterInit(TOKEN)
    /\ task = [t \in Tasks |-> IdleTask]
    /\ cv = CvOff
    /\ closes = NoCloses

\* a caller invokes an operation of the client
Invoke(t) ==
    /\ task[t].pc = "idle"
    /\ \E op \in Ops : \E args \in ArgsOf(op) :
           task' = [task EXCEPT ![t] = AfterStart(task[t], op, args)]
    /\ UNCHANGED <<client, session, cv, closes>>

\* the server's response to the task's HTTP call arrives: session.request
\* returns it and the task is suspended again, in the read of the body
Respond(t) ==
    /\ task[t].pc = "awaiting"
    /\ \E resp \in Responses :
           task' = [task EXCEPT ![t] = AfterResponse(task[t], resp)]
    /\ UNCHANGED <<client, session, cv, closes>>

\* the body of the response arrives: resp.json() or resp.text() returns
ReadBody(t) ==
    /\ task[t].pc = "reading"
    /\ task' = [task EXCEPT ![t] = AfterBody(client, task[t])]
    /\ UNCHANGED <<client, session, cv, closes>>

\* the caller cancels the task while it is suspended
Cancel(t) ==
    /\ task[t].pc \in {"awaiting", "reading"}
    /\ task' = [task EXCEPT ![t] = AfterCancel(task[t])]
    /\ UNCHANGED <<client, session, cv, closes>>

\* the caller takes the outcome; the task can invoke again
Finish(t) ==
    /\ task[t].pc = "done"
    /\ task' = [task EXCEPT ![t] = IdleTask]
    /\ UNCHANGED <<client, session, cv, closes>>

Next == \E t \in Tasks : Invoke(t) \/ Respond(t) \/ ReadBody(t) \/ Cancel(t) \/ Finish(t)

Spec == Init /\ [][Next]_vars

-----------------------------------------------------------------------------
(* convert on its own: every input of a bounded set, applied once *)

SchemePrefixes ==
    {<< >>,
     S_http \o S_colon_slashes,
     S_http \o <<"s">> \o S_colon_slashes,
     S_http \o S_colon_slashes \o S_www,
     S_http \o <<":", "/">>,
     <<"x">> \o S_http \o S_colon_slashes}

TailChars == {"a", "b", "/", "\n"}

ConvertInputs == {p \o q : p \in SchemePrefixes, q \in SeqsUpTo(TailChars, MaxTail)}

InitConvert ==
    /\ client = ClientInit(TOKEN)
    /\ session = SessionAfterInit(TOKEN)
    /\ task = [t \in Tasks |-> IdleTask]
    /\ cv \in [pc : {"start"}, input : ConvertInputs, output : {<< >>}]
    /\ closes = NoCloses

ApplyConvert ==
    /\ cv.pc = "start"
    /\ cv' = [cv EXCEPT !.pc = "done", !.output = convert(cv.input)]
    /\ UNCHANGED <<client, session, task, closes>>

NextConvert == ApplyConvert

SpecConvert == InitConvert /\ [][NextConvert]_vars

-----------------------------------------------------------------------------
(* models.py: the convenience methods of Gist and Comment *)

\* post_gist and update_gist declare their parameters after a bare `*`
KeywordOnlyOps == {"post_gist", "update_gist"}

\* the arguments of a Client operation called positionally, by parameter name;
\* the first, the id-or-url, comes as the Optional it is on the entity
BoundArgs(op, posargs) ==
    CASE op \in {"fetch_gist", "delete_gist", "star_gist", "unstar_gist", "fork_gist"} ->
            [id_or_url |-> posargs[1][1]]
      [] op = "fetch_comments" ->
            [id_or_url |-> posargs[1][1], per_page |-> posargs[2], page |-> posargs[3]]
      [] op = "post_comment" ->
            [id_or_url |-> posargs[1][1], content |-> posargs[2]]
      [] op = "update_comment" ->
            [id_or_url |-> posargs[1][1], comment_id |-> posargs[2], content |-> posargs[3]]
      [] op = "delete_comment" ->
            [id_or_url |-> posargs[1][1], comment_id |-> posargs[2]]

\* client.<op>(*posargs) up to its first await: the binding of the arguments,
\* then the operation. With None for the id-or-url, URL_REGEX.match(None) in
\* convert raises (in delete_comment, `id - None` raises before it).
ClientOpCall(op, posargs) ==
    IF op \in KeywordOnlyOps
    THEN RaiseLocal("TypeError",
                    "Client.update_gist() takes 1 positional argument but 4 were given")
    ELSE IF posargs[1] = None
    THEN IF op = "delete_comment"
         THEN RaiseLocal("TypeError",
                  "unsupported operand type(s) for -: 'builtin_function_or_method' and 'NoneType'")
         ELSE RaiseLocal("TypeError", "expected string or bytes-like object, got 'NoneType'")
    ELSE Start(op, BoundArgs(op, posargs))

GistMethods == {"Gist.update", "Gist.delete", "Gist.star", "Gist.unstar", "Gist.fork",
                "Gist.comment", "Gist.fetch_comments"}
CommentMethods == {"Comment.update", "Comment.delete"}

\* the Client operation a method calls; Comment.delete calls none
CalledOp(method) ==
    CASE method = "Gist.update" -> "update_gist"
      [] method = "Gist.delete" -> "delete_gist"
      [] method = "Gist.star" -> "star_gist"
      [] method = "Gist.unstar" -> "unstar_gist"
      [] method = "Gist.fork" -> "fork_gist"
      [] method = "Gist.comment" -> "post_comment"
      [] method = "Gist.fetch_comments" -> "fetch_comments"
      [] method = "Comment.update" -> "update_comment"
      [] method = "Comment.delete" -> ""

\* a method of the entity self, with the method's own arguments margs, up to
\* its first await of an HTTP call or to the exception it raises before
EntityMethod(method, self, margs) ==
    CASE method = "Gist.update" ->
            ClientOpCall("update_gist", <<self.id, margs.description, margs.files>>)
      [] method \in {"Gist.delete", "Gist.star", "Gist.unstar", "Gist.fork"} ->
            ClientOpCall(CalledOp(method), <<self.id>>)
      [] method = "Gist.comment" ->
            ClientOpCall("post_comment", <<self.id, margs.content>>)
      [] method = "Gist.fetch_comments" ->
            ClientOpCall("fetch_comments", <<self.id, margs.per_page, margs.page>>)
      [] method = "Comment.update" ->
            ClientOpCall("update_comment", <<self.gist_id, self.id[1], margs.content>>)
      [] method = "Comment.delete" ->
            \* `return await self.client`
            RaiseLocal("TypeError", "object Client can't be used in 'await' expression")

\* the arguments a method takes besides self
MethodArgs(method) ==
    CASE method = "Gist.update" ->
            [description : {"desc"},
             files : {[kind |-> "File", file |-> f] : f \in InputFiles}]
      [] method \in {"Gist.delete", "Gist.star", "Gist.unstar", "Gist.fork",
                     "Comment.delete"} ->
            {[none |-> TRUE]}
      [] method \in {"Gist.comment", "Comment.update"} -> [content : {"hello"}]
      [] method = "Gist.fetch_comments" -> [per_page : {30, 100}, page : {1, 2}]

\* the Gists the client decodes from the responses
DecodedGists ==
    {GistInit(ClientInit(TOKEN), Some(obj)).value :
        obj \in {o \in GistObjects : GistInit(ClientInit(TOKEN), Some(o)).kind = "return"}}

\* comment JSON objects, with and without the gist_id key
CommentObjects ==
    {Restrict(c, DOMAIN c \ dropped) :
        c \in [id : {7, 42}, gist_id : {GistId}, body : {"hello"},
               created_at : {TS_VALID}, updated_at : {TS_VALID}],
        dropped \in {{}, {"gist_id"}}}

\* the Comments built from them with Comment(client, data)
DecodedComments ==
    {CommentNew(<<ClientInit(TOKEN), Some(obj)>>).value : obj \in CommentObjects}

\* the task after it called method on self: as AfterStart, the operation being
\* the one the method calls
AfterMethod(tk, method, self, margs) ==
    LET st   == EntityMethod(method, self, margs)
        args == [method |-> method, self |-> self, margs |-> margs]
    IN  IF st.kind = "raise"
        THEN [tk EXCEPT !.pc = "done", !.op = CalledOp(method), !.args = Some(args),
                        !.outcome = Some(st)]
        ELSE [tk EXCEPT !.pc = "awaiting", !.op = CalledOp(method), !.args = Some(args),
                        !.req = Some(st.req), !.kwargs = Some(st.kwargs),
                        !.ncalls = tk.ncalls + 1]

\* a caller calls a convenience method of a decoded Gist
InvokeGistMethod(t) ==
    /\ task[t].pc = "idle"
    /\ \E method \in GistMethods : \E g \in DecodedGists : \E margs \in MethodArgs(method) :
           task' = [task EXCEPT ![t] = AfterMethod(task[t], method, g, margs)]
    /\ UNCHANGED <<client, session, cv, closes>>

\* a caller calls a convenience method of a Comment
InvokeCommentMethod(t) ==
    /\ task[t].pc = "idle"
    /\ \E method \in CommentMethods : \E c \in DecodedComments :
       \E margs \in MethodArgs(method) :
           task' = [task EXCEPT ![t] = AfterMethod(task[t], method, c, margs)]
    /\ UNCHANGED <<client, session, cv, closes>>

NextEntity ==
    \E t \in Tasks :
        \/ InvokeGistMethod(t) \/ InvokeCommentMethod(t)
        \/ Respond(t) \/ ReadBody(t) \/ Cancel(t) \/ Finish(t)

SpecEntity == Init /\ [][NextEntity]_vars

-----------------------------------------------------------------------------
(* Two callers using one client concurrently *)

ConcTasks == {"t1", "t2"}

\* the calls the two callers make: reads and writes of one gist, by id or by
\* URL, a creation, and two operations that raise before awaiting
ConcCalls ==
    {[op |-> op, args |-> [id_or_url |-> GistId]] :
        op \in {"delete_gist", "star_gist", "fork_gist"}}
        \cup {[op |-> "fetch_gist", args |-> [id_or_url |-> UrlHost \o GistId]],
              [op |-> "post_gist",
               args |-> [description |-> "desc", public |-> TRUE,
                         files |-> [kind |-> "File", file |-> File("file.txt", "c1")]]],
              [op |-> "update_gist",
               args |-> [id_or_url |-> GistId, description |-> "desc",
                         files |-> [kind |-> "File", file |-> File("file.txt", "c1")]]],
              [op |-> "post_comment", args |-> [id_or_url |-> GistId, content |-> "hello"]]}

\* the responses the server gives them
ConcResponses ==
    {r \in Responses :
        \/ /\ r.status = 200
           /\ \/ r.json.value = None
              \/ /\ r.json.value # None
                 /\ r.json.value[1] \in
                        {Restrict(g, DOMAIN g \ dropped) :
                            g \in {h \in FullGists : h.id # << >> /\ h.created_at = TS_VALID
                                                      /\ Len(h.files) = 1},
                            dropped \in {{}, {"id"}}}
        \/ /\ r.status \in {404, 500}
           /\ r.reason = "Not Found"
           /\ r.text # ""
           /\ ~r.json.decodes}

\* the tasks after task t invoked op(args)
Started(tasks, t, op, args) == [tasks EXCEPT ![t] = AfterStart(tasks[t], op, args)]

\* Delivered with the response kept in one slot of the client: every call in
\* flight takes it
Delivered_SharedSlot(tasks, t, resp) ==
    [u \in DOMAIN tasks |->
        IF tasks[u].pc = "awaiting" THEN AfterResponse(tasks[u], resp) ELSE tasks[u]]

\* the tasks after the response resp to task t's call arrived
Delivered(tasks, t, resp) == [tasks EXCEPT ![t] = AfterResponse(tasks[t], resp)]

\* the tasks after the body of the response to task t's call was read
BodyRead(cl, tasks, t) == [tasks EXCEPT ![t] = AfterBody(cl, tasks[t])]

InitConc ==
    /\ client = ClientInit(TOKEN)
    /\ session = SessionAfterInit(TOKEN)
    /\ task = [t \in ConcTasks |-> IdleTask]
    /\ cv = CvOff
    /\ closes = NoCloses

ConcInvoke(t) ==
    /\ task[t].pc = "idle"
    /\ \E c \in ConcCalls : task' = Started(task, t, c.op, c.args)
    /\ UNCHANGED <<client, session, cv, closes>>

ConcRespond(t) ==
    /\ task[t].pc = "awaiting"
    /\ \E resp \in ConcResponses : task' = Delivered(task, t, resp)
    /\ UNCHANGED <<client, session, cv, closes>>

ConcReadBody(t) ==
    /\ task[t].pc = "reading"
    /\ task' = BodyRead(client, task, t)
    /\ UNCHANGED <<client, session, cv, closes>>

ConcCancel(t) ==
    /\ task[t].pc \in {"awaiting", "reading"}
    /\ task' = [task EXCEPT ![t] = AfterCancel(task[t])]
    /\ UNCHANGED <<client, session, cv, closes>>

ConcFinish(t) ==
    /\ task[t].pc = "done"
    /\ task' = [task EXCEPT ![t] = IdleTask]
    /\ UNCHANGED <<client, session, cv, closes>>

NextConc ==
    \E t \in ConcTasks :
        ConcInvoke(t) \/ ConcRespond(t) \/ ConcReadBody(t) \/ ConcCancel(t) \/ ConcFinish(t)

SpecConc == InitConc /\ [][NextConc]_vars

-----------------------------------------------------------------------------
(* client.py: Client.close, interleaved with the operations and with itself *)

\* aiohttp's ClientSession.close(): the session is closed from then on
SessionClose(s) == [s EXCEPT !.closed = TRUE]

\* what `await self.session.close()` does before Client.close gets control
\* back, the session being the caller's object: it returns without suspending;
\* or it suspends, session.closed being true from the call on; or it suspends,
\* session.closed turning true when it completes
SessionCloseModes == {"returns", "closed_at_call", "closed_at_return"}

\* the record of the closes after closer c's close returned None, leaving
\* session s
CloseReturned(cl, c, s, called) ==
    [cl EXCEPT !.closer[c] = [pc |-> "returned", called |-> called,
                              later |-> IF called THEN cl.closer[c].later
                                        ELSE cl.first # None,
                              outcome |-> Some(Return(None))],
               !.first = IF cl.first = None THEN Some(s) ELSE cl.first]

\* the record of the closes after closer c's close called session.close() and
\* was suspended in it
CloseSuspended(cl, c) ==
    [cl EXCEPT !.closer[c] = [pc |-> "closing", called |-> TRUE,
                              later |-> cl.first # None, outcome |-> None],
               !.session_close = TRUE]

\* the session and the record of the closes after closer c called
\* session.close() on session s
CallSessionClose(s, cl, c, mode) ==
    CASE mode = "returns" ->
            [session |-> SessionClose(s),
             closes  |-> CloseReturned(CloseSuspended(cl, c), c, SessionClose(s), TRUE)]
      [] mode = "closed_at_call" ->
            [session |-> SessionClose(s), closes |-> CloseSuspended(cl, c)]
      [] mode = "closed_at_return" ->
            [session |-> s, closes |-> CloseSuspended(cl, c)]

\* ClientClose without the test of session.closed
ClientClose_Unguarded(s, cl, c, mode) == CallSessionClose(s, cl, c, mode)

\* Client.close() called by closer c on session s, cl being the record of the
\* closes so far, up to its return or its suspension in session.close()
ClientClose(s, cl, c, mode) ==
    IF ~s.closed
    THEN CallSessionClose(s, cl, c, mode)
    ELSE [session |-> s, closes |-> CloseReturned(cl, c, s, FALSE)]

\* session.close() completes and Client.close returns
ClientCloseResumed(s, cl, c) ==
    [session |-> SessionClose(s),
     closes  |-> CloseReturned(cl, c, SessionClose(s), TRUE)]

\* the record of the closes after closer c's close was cancelled while it was
\* suspended in session.close(): Client.close raises CancelledError and the
\* session stays as session.close() left it
CloseCancelled(cl, c) ==
    [cl EXCEPT !.closer[c].pc = "raised", !.closer[c].outcome = Some(CancelledError)]

\* session.request(...) on a closed session raises RuntimeError (aiohttp); an
\* operation that raises before it reaches session.request raises as usual
AfterStartOnClosed(tk, op, args) ==
    LET st == Start(op, args)
    IN  IF st.kind = "raise"
        THEN [tk EXCEPT !.pc = "done", !.op = op, !.args = Some(args),
                        !.outcome = Some(st)]
        ELSE [tk EXCEPT !.pc = "done", !.op = op, !.args = Some(args),
                        !.req = Some(st.req), !.kwargs = Some(st.kwargs),
                        !.ncalls = tk.ncalls + 1,
                        !.outcome = Some(RaiseLocal("RuntimeError", "Session is closed"))]

\* a caller invokes an operation while the session is open
InvokeOpen(t) ==
    /\ ~session.closed
    /\ ConcInvoke(t)

\* a caller invokes an operation after the session was closed
InvokeOnClosed(t) ==
    /\ session.closed
    /\ task[t].pc = "idle"
    /\ \E c \in ConcCalls :
           task' = [task EXCEPT ![t] = AfterStartOnClosed(task[t], c.op, c.args)]
    /\ UNCHANGED <<client, session, cv, closes>>

\* a caller calls Client.close(): it returns, or is suspended in session.close()
CloseCall(c) ==
    /\ closes.closer[c].pc = "idle"
    /\ \E mode \in SessionCloseModes :
           /\ session' = ClientClose(session, closes, c, mode).session
           /\ closes' = ClientClose(session, closes, c, mode).closes
    /\ UNCHANGED <<client, task, cv>>

\* session.close() completes: the suspended Client.close is resumed and returns
CloseResume(c) ==
    /\ closes.closer[c].pc = "closing"
    /\ session' = ClientCloseResumed(session, closes, c).session
    /\ closes' = ClientCloseResumed(session, closes, c).closes
    /\ UNCHANGED <<client, task, cv>>

\* the caller cancels its close while it is suspended in session.close()
CloseCancel(c) ==
    /\ closes.closer[c].pc = "closing"
    /\ closes' = CloseCancelled(closes, c)
    /\ UNCHANGED <<client, session, task, cv>>

\* the caller of Client.close takes its result; it can call close again
CloseFinish(c) ==
    /\ closes.closer[c].pc \in {"returned", "raised"}
    /\ closes' = [closes EXCEPT !.closer[c] = IdleCloser]
    /\ UNCHANGED <<client, session, task, cv>>

NextClose ==
    \/ \E t \in Tasks :
           \/ InvokeOpen(t) \/ InvokeOnClosed(t)
           \/ ConcRespond(t) \/ ConcReadBody(t) \/ ConcCancel(t) \/ ConcFinish(t)
    \/ \E c \in Closers : CloseCall(c) \/ CloseResume(c) \/ CloseCancel(c) \/ CloseFinish(c)

SpecClose == Init /\ [][NextClose]_vars

-----------------------------------------------------------------------------
(* Properties of Client.request *)

IsSuccess(status) == status >= 200 /\ status < 300

\* the task was cancelled by its caller while it was suspended
Cancelled(tk) == tk.outcome = Some(CancelledError)

\* the tasks whose invocation received a response and read its body, so that
\* Client.request returned or raised
Answered == {t \in Tasks : task[t].pc = "done" /\ task[t].rr # None}

\* the typed failure the error taxonomy gives a status outside [200,300)
FailureFor(status) ==
    IF status = 404 THEN "NotFound"
    ELSE IF status = 403 THEN "Forbidden"
    ELSE "HTTPExeption"

\* C1: for a response whose status is outside [200,300), Client.request raises
\* the failure the status selects (NotFound for 404, Forbidden for 403,
\* HTTPExeption otherwise), and the failure carries the response's status,
\* reason and body text unchanged.
C1_FailureByStatus ==
    \A t \in Answered :
        LET resp == task[t].resp[1]
            rr   == task[t].rr[1]
        IN  ~IsSuccess(resp.status) =>
                /\ rr.kind = "raise"
                /\ rr.exc = FailureFor(resp.status)
                /\ DOMAIN rr = {"kind", "exc", "status", "reason", "text"}
                /\ rr.status = resp.status
                /\ rr.reason = resp.reason
                /\ rr.text = resp.text

\* a 403 response with a non-empty body was answered with Forbidden
C1_Witness ==
    \E t \in Answered :
        /\ task[t].resp[1].status = 403
        /\ task[t].resp[1].text # ""
        /\ task[t].rr[1].kind = "raise"
        /\ task[t].rr[1].exc = "Forbidden"

\* C2: for a response whose status is in [200,300), Client.request raises
\* nothing: it returns the decoded JSON when the body decodes and None when
\* the body does not decode.
C2_SuccessReturns ==
    \A t \in Answered :
        LET resp == task[t].resp[1]
            rr   == task[t].rr[1]
        IN  IsSuccess(resp.status) =>
                /\ rr.kind = "return"
                /\ resp.json.decodes => rr.value = resp.json.value
                /\ ~resp.json.decodes => rr.value = None

\* a 2xx response whose body does not decode was answered by returning None
C2_Witness ==
    \E t \in Answered :
        /\ IsSuccess(task[t].resp[1].status)
        /\ ~task[t].resp[1].json.decodes
        /\ task[t].rr[1] = Return(None)

\* C3: an invocation that reaches Client.request calls session.request exactly
\* once, whatever the status of the response; a failing status is surfaced as
\* the outcome of that same invocation.
C3_OneCallNoRetry ==
    \A t \in Tasks :
        /\ task[t].pc \in {"awaiting", "reading"} => task[t].ncalls = 1
        /\ (task[t].pc = "done" /\ task[t].req # None) => task[t].ncalls = 1
        /\ t \in Answered =>
               /\ task[t].ncalls = 1
               /\ ~IsSuccess(task[t].resp[1].status) =>
                      /\ task[t].outcome[1].kind = "raise"
                      /\ task[t].outcome[1] = task[t].rr[1]

\* a 500 response ended the invocation after its single call, with HTTPExeption
C3_Witness ==
    \E t \in Answered :
        /\ task[t].resp[1].status = 500
        /\ task[t].ncalls = 1
        /\ task[t].outcome[1].kind = "raise"
        /\ task[t].outcome[1].exc = "HTTPExeption"

-----------------------------------------------------------------------------
(* Properties of convert and of the paths built from it *)

\* the last non-empty component of s split on "/" (<< >> when there is none)
FinalNonEmptySegment(s) ==
    LET segs == Split(s, "/")
        full == {i \in 1..Len(segs) : segs[i] # << >>}
    IN  IF full = {} THEN << >>
        ELSE segs[CHOOSE i \in full : \A j \in full : j <= i]

\* C4: convert returns, for a string matching the URL pattern, its final
\* non-empty "/"-separated segment, also when the URL ends with "/"; and
\* returns a string not matching the pattern unchanged.
C4_ConvertFinalNonEmptySegment ==
    cv.pc = "done" =>
        IF URL_REGEX_match(cv.input)
        THEN cv.output = FinalNonEmptySegment(cv.input)
        ELSE cv.output = cv.input

\* the operations taking an id-or-url
IdOps == Ops \ {"post_gist"}

\* the bare id an id-or-url stands for
BareIdOf(id_or_url) ==
    IF URL_REGEX_match(id_or_url) THEN FinalNonEmptySegment(id_or_url) ELSE id_or_url

\* the endpoint table: the path of an operation, after the gists base path
TablePath(op, id, args) ==
    CASE op \in {"fetch_gist", "update_gist", "delete_gist"} -> <<"/">> \o id
      [] op \in {"star_gist", "unstar_gist"} -> <<"/">> \o id \o S_star
      [] op = "fork_gist" -> <<"/">> \o id \o S_forks
      [] op \in {"fetch_comments", "post_comment"} -> <<"/">> \o id \o S_comments
      [] op \in {"update_comment", "delete_comment"} ->
            <<"/">> \o id \o S_comments \o <<"/">> \o IntStr(args.comment_id)

\* the tasks whose invocation of op has started
Invoked(op) ==
    {t \in Tasks : task[t].pc \in {"awaiting", "reading", "done"} /\ task[t].op = op}

\* C5: every operation taking an id-or-url issues its HTTP call with the path
\* the endpoint table gives for the bare id, whether it was called with the bare
\* id or with a URL of it, and with the method it uses for the bare id.
C5_IdNormalizedBeforePath ==
    \A op \in IdOps : \A t \in Invoked(op) :
        LET args == task[t].args[1]
            bare == BareIdOf(args.id_or_url)
            same == Start(op, [args EXCEPT !.id_or_url = bare])
        IN  /\ task[t].req # None
            /\ task[t].ncalls = 1
            /\ task[t].req[1].path = TablePath(op, bare, args)
            /\ same.kind = "await"
            /\ task[t].req[1].method = same.req.method

-----------------------------------------------------------------------------
(* Properties of post_gist and update_gist *)

\* the value of kwargs[key], None when the call passed no such keyword
Kwarg(kwargs, key) ==
    IF \E i \in 1..Len(kwargs) : kwargs[i].k = key
    THEN Some(kwargs[CHOOSE i \in 1..Len(kwargs) : kwargs[i].k = key].v)
    ELSE None

\* files is the mapping the create/update payload must hold for the input
\* files: one entry per filename of the input, each entry with the key content
\* alone, holding the content of the (last) input file of that name
IsFilesMapOf(files, input) ==
    /\ {files[i].k : i \in 1..Len(files)} = {input[i].filename : i \in 1..Len(input)}
    /\ \A i, j \in 1..Len(files) : files[i].k = files[j].k => i = j
    /\ \A i \in 1..Len(files) :
           /\ DOMAIN files[i].v = {"content"}
           /\ \E n \in 1..Len(input) :
                  /\ input[n].filename = files[i].k
                  /\ input[n].content = files[i].v.content
                  /\ \A m \in (n + 1)..Len(input) : input[m].filename # files[i].k

\* the task's post_gist issued one POST to the gists base path whose JSON body
\* holds the description, the public flag and the files mapping of the input
PostGistRequestOK(tk) ==
    /\ tk.req # None
    /\ tk.ncalls = 1
    /\ tk.req[1].method = "POST"
    /\ tk.req[1].path = << >>
    /\ tk.req[1].url = GIST_URL
    /\ DictKeys(tk.kwargs[1]) = <<"json">>
    /\ LET data == Kwarg(tk.kwargs[1], "json")[1]
       IN  /\ DOMAIN data = {"description", "public", "files"}
           /\ data.description = tk.args[1].description
           /\ data.public = tk.args[1].public
           /\ IsFilesMapOf(data.files, AsList(tk.args[1].files))

\* the outcome is a Gist with the response's id and one File per entry of the
\* response's files object, in its order, with the entries' filenames
IsGistOf(outcome, obj) ==
    /\ outcome.kind = "return"
    /\ outcome.value.id = Some(obj.id)
    /\ Len(outcome.value.files) = Len(obj.files)
    /\ \A i \in 1..Len(obj.files) :
           outcome.value.files[i].filename = Get(obj.files[i].v, "filename")

\* the response is a 2xx whose JSON is an object with a non-empty id and a files object
HasIdAndFiles(tk) ==
    /\ tk.pc = "done"
    /\ tk.rr # None
    /\ IsSuccess(tk.resp[1].status)
    /\ tk.rr[1].value # None
    /\ TruthyStr(Get(tk.rr[1].value[1], "id"))
    /\ "files" \in DOMAIN tk.rr[1].value[1]

\* created_at and updated_at of the JSON object are timestamps of the fixed format
HasTimestamps(obj) ==
    /\ Get(obj, "created_at") = Some(TS_VALID)
    /\ Get(obj, "updated_at") = Some(TS_VALID)

\* C6 as stated: post_gist issues the POST described above, and whenever the
\* 2xx response JSON has an id and a files object the result is the Gist of
\* that response.
C6_PostGistAsStated ==
    \A t \in Invoked("post_gist") :
        /\ PostGistRequestOK(task[t])
        /\ HasIdAndFiles(task[t]) =>
               IsGistOf(task[t].outcome[1], task[t].rr[1].value[1])

\* C6, amended: post_gist issues the POST described above, and whenever the
\* 2xx response JSON has an id, a files object and created_at and updated_at
\* timestamps of the fixed format, the result is the Gist of that response.
C6_PostGist ==
    \A t \in Invoked("post_gist") :
        /\ PostGistRequestOK(task[t])
        /\ (HasIdAndFiles(task[t]) /\ HasTimestamps(task[t].rr[1].value[1])) =>
               IsGistOf(task[t].outcome[1], task[t].rr[1].value[1])

\* two files and public = true were posted, and the response with two file
\* entries was decoded to a Gist with two files
C6_Witness ==
    \E t \in Invoked("post_gist") :
        /\ task[t].args[1].files.kind = "list"
        /\ Len(task[t].args[1].files.items) = 2
        /\ task[t].args[1].files.items[1].filename # task[t].args[1].files.items[2].filename
        /\ task[t].args[1].public
        /\ Len(Kwarg(task[t].kwargs[1], "json")[1].files) = 2
        /\ HasIdAndFiles(task[t])
        /\ task[t].outcome[1].kind = "return"
        /\ task[t].outcome[1].value.id = Some(<<"a", "b", "c", "1", "2", "3">>)
        /\ Len(task[t].outcome[1].value.files) = 2

\* C7: update_gist issues one PATCH to /{id} whose JSON payload is
\* {"description": description, "files": {filename: {"content": content}}},
\* and returns the Gist decoded from the 2xx response.
C7_UpdateGistPayload ==
    \A t \in Invoked("update_gist") :
        /\ task[t].req # None
        /\ task[t].ncalls = 1
        /\ task[t].req[1].method = "PATCH"
        /\ task[t].req[1].path = <<"/">> \o convert(task[t].args[1].id_or_url)
        /\ DictKeys(task[t].kwargs[1]) = <<"json">>
        /\ LET data == Kwarg(task[t].kwargs[1], "json")[1]
           IN  /\ DOMAIN data = {"description", "files"}
               /\ data.description = task[t].args[1].description
               /\ IsFilesMapOf(data.files, AsList(task[t].args[1].files))
        /\ (HasIdAndFiles(task[t]) /\ HasTimestamps(task[t].rr[1].value[1])) =>
               IsGistOf(task[t].outcome[1], task[t].rr[1].value[1])

-----------------------------------------------------------------------------
(* Properties of the Gist decoder *)

GistOps == {"post_gist", "fetch_gist", "update_gist", "fork_gist"}

GistIdError == RaiseLocal("TypeError", "Gist data must have an id.")

\* the task's operation decodes a Gist and Client.request returned it a JSON object
DecodedObject(t) ==
    /\ t \in Answered
    /\ task[t].op \in GistOps
    /\ task[t].rr[1].kind = "return"
    /\ task[t].rr[1].value # None

\* C8: decoding a gist from a 2xx response whose JSON object has no id raises
\* TypeError("Gist data must have an id."), whatever other fields the object
\* has, and produces no Gist; every Gist an operation returns has a populated id.
C8_GistNeedsId ==
    \A t \in Tasks :
        /\ (DecodedObject(t) /\ "id" \notin DOMAIN task[t].rr[1].value[1]) =>
               task[t].outcome[1] = GistIdError
        /\ (task[t].pc = "done" /\ task[t].op \in GistOps
                /\ task[t].outcome[1].kind = "return") =>
               TruthyStr(task[t].outcome[1].value.id)

\* a response object with files and both timestamps but no id was refused
C8_Witness ==
    \E t \in Tasks :
        /\ DecodedObject(t)
        /\ "id" \notin DOMAIN task[t].rr[1].value[1]
        /\ {"files", "created_at", "updated_at", "owner"} \subseteq DOMAIN task[t].rr[1].value[1]
        /\ HasTimestamps(task[t].rr[1].value[1])
        /\ task[t].outcome[1] = GistIdError

-----------------------------------------------------------------------------
(* Properties of the comment operations *)

\* C9: fetch_comments issues one GET to /{id}/comments carrying per_page and
\* page, and on a 2xx response returns the sequence of Comment decoded from the
\* response's array, element by element.
C9_FetchComments ==
    \A t \in Invoked("fetch_comments") :
        /\ task[t].req # None
        /\ task[t].ncalls = 1
        /\ task[t].req[1].method = "GET"
        /\ task[t].req[1].path = <<"/">> \o convert(task[t].args[1].id_or_url) \o S_comments
        /\ \E i \in 1..Len(task[t].kwargs[1]) :
               task[t].kwargs[1][i].v = [per_page |-> task[t].args[1].per_page,
                                         page |-> task[t].args[1].page]
        /\ (task[t].pc = "done" /\ task[t].outcome[1].kind = "raise"
                /\ ~Cancelled(task[t])) =>
               (task[t].resp # None /\ ~IsSuccess(task[t].resp[1].status))

\* C10: post_comment issues one HTTP call with method POST to /{id}/comments
\* whose payload carries the text, and returns the Comment decoded from the
\* 2xx response.
C10_PostComment ==
    \A t \in Invoked("post_comment") :
        /\ task[t].req # None
        /\ task[t].ncalls = 1
        /\ task[t].req[1].method = "POST"
        /\ task[t].req[1].path = <<"/">> \o convert(task[t].args[1].id_or_url) \o S_comments
        /\ \E i \in 1..Len(task[t].kwargs[1]) :
               \E key \in DOMAIN task[t].kwargs[1][i].v :
                   task[t].kwargs[1][i].v[key] = task[t].args[1].content
        /\ (task[t].pc = "done" /\ task[t].outcome[1].kind = "raise"
                /\ ~Cancelled(task[t])) =>
               (task[t].resp # None /\ ~IsSuccess(task[t].resp[1].status))

-----------------------------------------------------------------------------
(* Properties of Client.close *)

\* C11: Client.close is idempotent: the first close releases the session
\* with a call of session.close(); every later close, one begun after a close
\* returned, calls session.close() no more and returns at once; no close
\* raises, but for the CancelledError of a close its caller cancelled in
\* session.close(); and the session after any number n >= 1 of closes is the
\* session as the first close left it, whatever operations ran between.
C11_CloseIdempotent ==
    /\ \A c \in Closers :
           /\ closes.closer[c].pc = "returned" =>
                  closes.closer[c].outcome = Some(Return(None))
           /\ closes.closer[c].pc = "raised" =>
                  /\ closes.closer[c].outcome = Some(CancelledError)
                  /\ closes.closer[c].called
           /\ closes.closer[c].later =>
                  /\ closes.closer[c].pc = "returned"
                  /\ ~closes.closer[c].called
    /\ closes.first # None =>
           /\ session.closed
           /\ closes.session_close
           /\ session = closes.first[1]

\* a close begun after an earlier close had returned was a no-op, an
\* operation having been run on the closed session
C11_Witness ==
    /\ \E c \in Closers :
           /\ closes.closer[c].pc = "returned"
           /\ closes.closer[c].later
           /\ ~closes.closer[c].called
    /\ closes.session_close
    /\ session.closed
    /\ \E t \in Tasks : task[t].pc = "done" /\ task[t].ncalls = 1 /\ task[t].resp = None
                          /\ ~Cancelled(task[t])

-----------------------------------------------------------------------------
(* Properties of concurrent calls *)

\* the task's call is in flight or was answered
InFlightOrAnswered(t) ==
    task[t].pc \in {"awaiting", "reading"} \/ (task[t].pc = "done" /\ task[t].req # None)

\* what the task's invocation comes to when it runs alone, its call is answered
\* as it was and it is cancelled where it was
RunAlone(tk) ==
    LET started  == AfterStart(IdleTask, tk.op, tk.args[1])
        answered == AfterResponse(started, tk.resp[1])
    IN  IF tk.resp = None
        THEN IF Cancelled(tk) THEN AfterCancel(started) ELSE started
        ELSE IF Cancelled(tk) THEN AfterCancel(answered)
        ELSE IF tk.pc = "reading" THEN answered
        ELSE AfterBody(client, answered)

\* in every state: a task not running may invoke, a call in flight may be
\* answered and a body awaited may be read, whatever the other task is doing;
\* a call in flight or answered was one HTTP call; each task stands where it
\* would running alone with the response to its own call; the token and the
\* fixed headers are as set at construction
ConcState ==
    /\ \A t \in ConcTasks :
           /\ task[t].pc = "idle" => ENABLED ConcInvoke(t)
           /\ task[t].pc = "awaiting" => ENABLED ConcRespond(t)
           /\ task[t].pc = "reading" => ENABLED ConcReadBody(t)
           /\ InFlightOrAnswered(t) => task[t].ncalls = 1
           /\ task[t].pc # "idle" => task[t] = RunAlone(task[t])
    /\ client.token = TOKEN
    /\ session.closed = FALSE
    /\ session.headers = [Accept |-> "application/vnd.github.v3+json",
                          UserAgent |-> "Avimetry-Gist-Cog",
                          Authorization |-> <<"token ", TOKEN>>]

\* in every step: one task's invocation moves and the other task's is untouched
ConcStep ==
    \A t, u \in ConcTasks : t # u => (task'[t] = task[t] \/ task'[u] = task[u])

\* C12: calls issued concurrently on one client are independent: no ordering
\* or mutual exclusion among them, each outcome decided by the response to the
\* call's own HTTP call, one HTTP call each, and the client's token, session
\* and fixed headers unchanged.
C12_ConcurrentCallsIndependent == []ConcState /\ [][ConcStep]_vars

\* two writes to the same gist in flight together, one answered with a failure
\* while the other, whose response came first, still waits for its body
C12_Witness ==
    \E t, u \in ConcTasks :
        /\ t # u
        /\ task[t].op = "delete_gist" /\ task[u].op = "star_gist"
        /\ task[t].args[1].id_or_url = task[u].args[1].id_or_url
        /\ task[t].pc = "done" /\ task[t].rr # None
        /\ task[t].resp[1].status = 404
        /\ task[t].outcome[1].exc = "NotFound"
        /\ task[u].pc = "reading" /\ task[u].ncalls = 1

-----------------------------------------------------------------------------
(* Properties of the convenience methods *)

\* the Client operation that matches a method
MatchingOp(method) ==
    IF method = "Comment.delete" THEN "delete_comment" ELSE CalledOp(method)

\* the matching Client operation called with the entity's own id(s) and the
\* method's arguments, up to its first await: update_gist by keyword, as it
\* must be called; the others positionally
DirectCall(method, self, margs) ==
    CASE method = "Gist.update" ->
            IF self.id = None
            THEN RaiseLocal("TypeError", "expected string or bytes-like object, got 'NoneType'")
            ELSE Start("update_gist", [id_or_url |-> self.id[1],
                                       description |-> margs.description,
                                       files |-> margs.files])
      [] method = "Comment.delete" ->
            ClientOpCall("delete_comment", <<self.gist_id, self.id[1]>>)
      [] OTHER -> EntityMethod(method, self, margs)

\* C13: every convenience method of a decoded Gist or Comment issues the HTTP
\* call, and yields the outcome, of the matching Client operation called with
\* the entity's own id(s).
C13_PureDelegation ==
    \A t \in Tasks :
        task[t].pc \in {"awaiting", "reading", "done"} =>
            LET a      == task[t].args[1]
                direct == DirectCall(a.method, a.self, a.margs)
            IN  IF direct.kind = "raise"
                THEN /\ task[t].pc = "done"
                     /\ task[t].ncalls = 0
                     /\ task[t].outcome = Some(direct)
                ELSE /\ task[t].ncalls = 1
                     /\ task[t].req = Some(direct.req)
                     /\ task[t].kwargs = Some(direct.kwargs)
                     /\ (task[t].pc = "done" /\ ~Cancelled(task[t])) =>
                            task[t].outcome =
                                Some(IF task[t].rr[1].kind = "raise" THEN task[t].rr[1]
                                     ELSE Complete(client, MatchingOp(a.method),
                                                   task[t].rr[1].value))

====
